---------------------------- MODULE Spec2Model ----------------------------
(***************************************************************************)
(* A model of src/server.js: the express application with its request      *)
(* logging middleware (lines 13-48), the process configuration (lines      *)
(* 50-52, 109), buildGeminiBody (lines 59-88) and the POST /api/ai handler *)
(* (lines 95-143).                                                         *)
(*                                                                         *)
(* JavaScript values are records [t, v, n]: t is the typeof-like tag, v    *)
(* the text of a string (or the literal of another value), n the serial    *)
(* number of a generated UUID (0 for every other value).                   *)
(***************************************************************************)
EXTENDS Naturals, Sequences, FiniteSets, TLC

\* Number of inbound requests the server receives in one run.
NumReqs == 2

Reqs == 1..NumReqs

-----------------------------------------------------------------------------
(* JavaScript values *)

Undefined == [t |-> "undefined", v |-> "", n |-> 0]
Null      == [t |-> "null", v |-> "", n |-> 0]
Str(s)    == [t |-> "string", v |-> s, n |-> 0]
Num(s)    == [t |-> "number", v |-> s, n |-> 0]
Bool(s)   == [t |-> "boolean", v |-> s, n |-> 0]
Arr       == [t |-> "array", v |-> "[]", n |-> 0]
Obj       == [t |-> "object", v |-> "{}", n |-> 0]

\* The string randomUUID() returns on its k-th call: "uuid-k".
Uuid(k)   == [t |-> "string", v |-> "uuid", n |-> k]

\* typeof x
TypeOf(x) == IF x.t \in {"null", "array"} THEN "object" ELSE x.t

\* !x : undefined, null, "", 0 and false are the falsy values
Falsy(x) ==
    \/ x.t \in {"undefined", "null"}
    \/ x.t = "string" /\ x.v = "" /\ x.n = 0
    \/ x.t = "number" /\ x.v = "0"
    \/ x.t = "boolean" /\ x.v = "false"

Truthy(x) == ~Falsy(x)

\* a || b
Or(a, b) == IF Truthy(a) THEN a ELSE b

-----------------------------------------------------------------------------
(* The fixed texts of the handler.  U+1F4DE stands for the telephone       *)
(* receiver emoji of the source, which a TLA+ string cannot hold.          *)

MISSING_QUERY_REPLY == Str("Missing or invalid query.")

NOT_CONFIGURED_REPLY ==
    Str("AI is not configured at the moment. Please call the pharmacy directly. U+1F4DE Please consult a doctor for serious advice.")

SAFETY_REPLY ==
    Str("I cannot answer that question due to safety guidelines. Please consult a doctor directly. Please consult a doctor for serious advice.")

FALLBACK_REPLY ==
    Str("Sorry, I'm not sure how to answer that safely. You can call or visit the store for help. Please consult a doctor for serious advice.")

NOT_RESPONDING_REPLY ==
    Str("AI is currently not responding. Please call the pharmacy directly. U+1F4DE Please consult a doctor for serious advice.")

DEFAULT_MODEL == Str("gemini-2.5-flash")

DEFAULT_PORT == Num("3001")

systemPrompt == Str("You are an AI Pharmacist for the pharmacy New Lucky Pharma in India. ...")

-----------------------------------------------------------------------------
VARIABLES
    env,            \* process.env: GOOGLE_API_KEY, GOOGLE_MODEL, PORT
    startEnv,       \* process.env as it was when the module was loaded
    GOOGLE_API_KEY, \* the module constant of line 52
    PORT,           \* the module constant of line 51
    uuidCalls,      \* number of randomUUID() calls so far
    pc,             \* per request: where its handling stands
    connOpen,       \* per request: the client connection is still open
    header,         \* per request: req.headers['x-request-id']
    reqId,          \* per request: req.id, the id the middleware closure holds
    resHeader,      \* per request: the X-Request-Id response header
    query,          \* per request: req.body.query
    fetchCalls,     \* per request: the fetch() calls made
    envAtCall,      \* per request: process.env when the handler ran
    apiResponse,    \* per request: what fetch() settled with
    data,           \* per request: what apiResponse.json() settled with
    statusCode,     \* per request: res.statusCode
    resBody,        \* per request: the res.json() calls, in order
    finished,       \* per request: the response's 'finish' event has fired
    stdout,         \* console.log lines, in order
    stderr          \* the console.error lines written (a set: their order is not kept)

vars == <<env, startEnv, GOOGLE_API_KEY, PORT, uuidCalls, pc, connOpen, header,
          reqId, resHeader, query, fetchCalls, envAtCall, apiResponse, data,
          statusCode, resBody, finished, stdout, stderr>>


-----------------------------------------------------------------------------
(* The parsed upstream body.  json says whether the body is an object or   *)
(* the JSON null; promptFeedback and content say whether that object is    *)
(* there; candidates and parts say whether the list is missing, empty or   *)
(* has a first element; blockReason and text are the leaf values           *)
(* (Undefined when the field is absent).                                   *)

NullData ==
    [json |-> "null", promptFeedback |-> FALSE, blockReason |-> Undefined,
     candidates |-> "undefined", content |-> FALSE, parts |-> "undefined",
     text |-> Undefined]

\* An object body: pf = "none" | "empty" | "reason"; shape says how far the
\* path candidates[0].content.parts[0].text goes.
Data(pf, reason, shape, txt) ==
    [json |-> "object",
     promptFeedback |-> (pf # "none"),
     blockReason |-> IF pf = "reason" THEN reason ELSE Undefined,
     candidates |-> CASE shape = "noCandidates" -> "undefined"
                      [] shape = "emptyCandidates" -> "empty"
                      [] OTHER -> "first",
     content |-> shape \in {"noParts", "emptyParts", "noText", "text"},
     parts |-> CASE shape \in {"noText", "text"} -> "first"
                 [] shape = "emptyParts" -> "empty"
                 [] OTHER -> "undefined",
     text |-> IF shape = "text" THEN txt ELSE Undefined]

\* The text field exists at candidates[0].content.parts[0].
HasText(d) == d.json = "object" /\ d.parts = "first" /\ d.text.t # "undefined"

\* The blockReason field exists in promptFeedback.
HasBlockReason(d) ==
    d.json = "object" /\ d.promptFeedback /\ d.blockReason.t # "undefined"

\* data?.promptFeedback?.blockReason
BlockReasonOf(d) ==
    IF d.json = "null" THEN Undefined
    ELSE IF ~d.promptFeedback THEN Undefined
    ELSE d.blockReason

\* data?.candidates?.[0]?.content?.parts?.[0]?.text
TextOf(d) ==
    IF d.json = "null" THEN Undefined
    ELSE IF d.candidates # "first" THEN Undefined
    ELSE IF ~d.content THEN Undefined
    ELSE IF d.parts # "first" THEN Undefined
    ELSE d.text

-----------------------------------------------------------------------------
(* The handler's decisions, lines 95-143 *)

Res(status, reply) == [status |-> status, reply |-> reply]

\* A variant that tests only for a missing query.
InvalidQuery_missingOnly(q) == Falsy(q)

\* line 98: !query || typeof query !== "string"
InvalidQuery(q) == Falsy(q) \/ TypeOf(q) # "string"

\* A variant that tests the key against undefined only.
NotConfigured_undefinedOnly(key) == key.t = "undefined"

\* A variant without the configuration check.
NotConfigured_never(key) == FALSE

\* line 102: !GOOGLE_API_KEY
NotConfigured(key) == Falsy(key)

\* line 109: process.env.GOOGLE_MODEL || "gemini-2.5-flash"
MODEL_NAME(e) == Or(e.GOOGLE_MODEL, DEFAULT_MODEL)

\* A variant that reads the key from process.env at the call.
Url_keyFromEnv(e, key) == [model |-> MODEL_NAME(e), key |-> e.GOOGLE_API_KEY]

\* line 110: the URL holds the model name in its path and the key in its query
Url(e, key) == [model |-> MODEL_NAME(e), key |-> key]

\* lines 59-88
buildGeminiBody(q) ==
    [contents |-> <<[parts |-> <<[text |-> systemPrompt], [text |-> q]>>]>>]

\* lines 113-117: the one outbound call
FetchRequest(e, key, q) ==
    [url |-> Url(e, key), method |-> "POST", body |-> buildGeminiBody(q)]

\* A variant that looks at the candidate text before the block reason.
Interpret_textFirst(ok, d) ==
    IF Truthy(TextOf(d)) THEN Res(200, TextOf(d))
    ELSE IF Truthy(BlockReasonOf(d)) THEN Res(200, SAFETY_REPLY)
    ELSE Res(200, FALLBACK_REPLY)

\* A variant without the fallback text.
Interpret_noFallback(ok, d) ==
    IF Truthy(BlockReasonOf(d))
    THEN Res(200, SAFETY_REPLY)
    ELSE Res(200, TextOf(d))

\* A variant that treats a non-2xx upstream status as a failure.
Interpret_failsOnHttpError(ok, d) ==
    IF ~ok THEN Res(500, NOT_RESPONDING_REPLY)
    ELSE IF Truthy(BlockReasonOf(d)) THEN Res(200, SAFETY_REPLY)
    ELSE Res(200, Or(TextOf(d), FALLBACK_REPLY))

\* lines 125-136: the response for a body that parsed; ok is apiResponse.ok
Interpret(ok, d) ==
    IF Truthy(BlockReasonOf(d))
    THEN Res(200, SAFETY_REPLY)
    ELSE Res(200, Or(TextOf(d), FALLBACK_REPLY))

\* lines 121-126: the console.error lines for a body that parsed
ErrorLines(r, ok, d) ==
    (IF ~ok THEN {[line |-> "Gemini API HTTP error:", req |-> r]} ELSE {})
    \cup (IF Truthy(BlockReasonOf(d))
          THEN {[line |-> "Prompt blocked:", req |-> r]} ELSE {})

\* A variant that puts the error's message in the reply.
Catch_leaksError(err) == Res(500, Str(err))

\* lines 137-142: the catch block; err is the error fetch() or json() threw
Catch(err) == Res(500, NOT_RESPONDING_REPLY)

\* A variant that generates the id once, when the module is loaded.
ResolveId_generatedOnce(h, calls) == IF Truthy(h) THEN h ELSE Uuid(1)

\* line 14: req.headers['x-request-id'] || randomUUID()
ResolveId(h, calls) == IF Truthy(h) THEN h ELSE Uuid(calls + 1)

\* randomUUID() is called only when the header is falsy
UuidCallsAfter(h, calls) == IF Truthy(h) THEN calls ELSE calls + 1

\* lines 21-31
StartLine(r, id) == [event |-> "request_start", id |-> id, status |-> 0, req |-> r]

\* A variant that logs the inbound header in place of the resolved id.
EndLine_inboundHeader(r, id, status) ==
    [event |-> "request_end", id |-> header[r], status |-> status, req |-> r]

\* lines 35-44
EndLine(r, id, status) ==
    [event |-> "request_end", id |-> id, status |-> status, req |-> r]


-----------------------------------------------------------------------------
(* Inputs *)

\* x-request-id as the client may send it: absent, empty, or a value
Headers == {Undefined, Str(""), Str("abc")}

\* req.body.query: absent, null, "", numbers, booleans, array, object, strings
Queries ==
    {Undefined, Null, Str(""), Num("0"), Num("7"), Bool("false"), Bool("true"),
     Arr, Obj, Str("hi"), Str("What is paracetamol?")}

Shapes ==
    {"noCandidates", "emptyCandidates", "noContent", "noParts", "emptyParts",
     "noText", "text"}

Texts == {Str(""), Str("1. Take with water")}

\* The provider's BlockReason is an enumeration of non-empty names.
BlockReasons == {Str("SAFETY"), Str("OTHER")}

Bodies ==
    {NullData} \cup
    {Data(pf, br, sh, tx) :
        pf \in {"none", "empty", "reason"}, br \in BlockReasons,
        sh \in Shapes, tx \in Texts}

KeyValues == {Undefined, Str(""), Str("key-1"), Str("key-2")}

ModelValues == {Undefined, Str("gemini-pro"), Str("gemini-ultra")}

PortValues == {Undefined, Str("8080")}

Envs == [GOOGLE_API_KEY : KeyValues, GOOGLE_MODEL : ModelValues, PORT : PortValues]

\* What fetch() settles with: a rejection, or a response with its ok flag
FetchResults ==
    {[settled |-> "rejected", ok |-> FALSE]} \cup
    {[settled |-> "resolved", ok |-> b] : b \in BOOLEAN}

Pending == [settled |-> "pending", ok |-> FALSE]

-----------------------------------------------------------------------------
(* State after the module is loaded, lines 8-56 *)

InitWith(E) ==
    /\ env \in E
    /\ startEnv = env
    /\ GOOGLE_API_KEY = env.GOOGLE_API_KEY
    /\ PORT = Or(env.PORT, DEFAULT_PORT)
    /\ uuidCalls = 0
    /\ pc = [r \in Reqs |-> "new"]
    /\ connOpen = [r \in Reqs |-> TRUE]
    /\ header = [r \in Reqs |-> Undefined]
    /\ reqId = [r \in Reqs |-> Undefined]
    /\ resHeader = [r \in Reqs |-> Undefined]
    /\ query = [r \in Reqs |-> Undefined]
    /\ fetchCalls = [r \in Reqs |-> <<>>]
    /\ envAtCall = [r \in Reqs |-> env]
    /\ apiResponse = [r \in Reqs |-> Pending]
    /\ data = [r \in Reqs |-> NullData]
    /\ statusCode = [r \in Reqs |-> 200]
    /\ resBody = [r \in Reqs |-> <<>>]
    /\ finished = [r \in Reqs |-> FALSE]
    /\ stdout = <<>>
    /\ stderr = {}

-----------------------------------------------------------------------------
(* Actions *)

\* Some code of the process assigns process.env[k] after startup.
EnvChange(k, v) ==
    /\ v # env[k]
    /\ env' = [env EXCEPT ![k] = v]
    /\ UNCHANGED <<startEnv, GOOGLE_API_KEY, PORT, uuidCalls, pc, connOpen,
                   header, reqId, resHeader, query, fetchCalls, envAtCall,
                   apiResponse, data, statusCode, resBody, finished, stdout,
                   stderr>>

\* lines 13-48: a request arrives with x-request-id h and the middleware runs.
\* Requests are numbered in the order they arrive.
Middleware(r, h) ==
    /\ pc[r] = "new"
    /\ \A p \in Reqs : p < r => pc[p] # "new"
    /\ header' = [header EXCEPT ![r] = h]
    /\ reqId' = [reqId EXCEPT ![r] = ResolveId(h, uuidCalls)]
    /\ uuidCalls' = UuidCallsAfter(h, uuidCalls)
    /\ resHeader' = [resHeader EXCEPT ![r] = reqId'[r]]
    /\ stdout' = Append(stdout, StartLine(r, reqId'[r]))
    /\ pc' = [pc EXCEPT ![r] = "routed"]
    /\ UNCHANGED <<env, startEnv, GOOGLE_API_KEY, PORT, connOpen, query,
                   fetchCalls, envAtCall, apiResponse, data, statusCode,
                   resBody, finished, stderr>>

\* res.status(s).json(b): the one place a response is written
Send(r, res) ==
    /\ statusCode' = [statusCode EXCEPT ![r] = res.status]
    /\ resBody' = [resBody EXCEPT ![r] = Append(@, res.reply)]
    /\ pc' = [pc EXCEPT ![r] = "done"]

\* lines 95-117: the handler runs with req.body.query = q, up to the fetch()
Handler(r, q) ==
    /\ pc[r] = "routed"
    /\ query' = [query EXCEPT ![r] = q]
    /\ envAtCall' = [envAtCall EXCEPT ![r] = env]
    /\ IF InvalidQuery(q)
       THEN /\ Send(r, Res(400, MISSING_QUERY_REPLY))
            /\ UNCHANGED fetchCalls
       ELSE IF NotConfigured(GOOGLE_API_KEY)
       THEN /\ Send(r, Res(500, NOT_CONFIGURED_REPLY))
            /\ UNCHANGED fetchCalls
       ELSE /\ fetchCalls' = [fetchCalls EXCEPT
                                ![r] = Append(@, FetchRequest(env, GOOGLE_API_KEY, q))]
            /\ pc' = [pc EXCEPT ![r] = "fetching"]
            /\ UNCHANGED <<statusCode, resBody>>
    /\ UNCHANGED <<env, startEnv, GOOGLE_API_KEY, PORT, uuidCalls, connOpen,
                   header, reqId, resHeader, apiResponse, data, finished,
                   stdout, stderr>>

\* line 113: the awaited fetch() settles with f
FetchSettle(r, f) ==
    /\ pc[r] = "fetching"
    /\ apiResponse' = [apiResponse EXCEPT ![r] = f]
    /\ IF f.settled = "rejected"
       THEN /\ stderr' = stderr \cup {[line |-> "Gemini API error:", req |-> r]}
            /\ Send(r, Catch("transport"))
       ELSE /\ pc' = [pc EXCEPT ![r] = "parsing"]
            /\ UNCHANGED <<statusCode, resBody, stderr>>
    /\ UNCHANGED <<env, startEnv, GOOGLE_API_KEY, PORT, uuidCalls, connOpen,
                   header, reqId, resHeader, query, fetchCalls, envAtCall,
                   data, finished, stdout>>

\* lines 119-136: the awaited apiResponse.json() resolves with body d
JsonResolve(r, d) ==
    /\ pc[r] = "parsing"
    /\ data' = [data EXCEPT ![r] = d]
    /\ stderr' = stderr \cup ErrorLines(r, apiResponse[r].ok, d)
    /\ Send(r, Interpret(apiResponse[r].ok, d))
    /\ UNCHANGED <<env, startEnv, GOOGLE_API_KEY, PORT, uuidCalls, connOpen,
                   header, reqId, resHeader, query, fetchCalls, envAtCall,
                   apiResponse, finished, stdout>>

\* lines 119, 137-142: the awaited apiResponse.json() rejects (the body is not JSON)
JsonReject(r) ==
    /\ pc[r] = "parsing"
    /\ apiResponse' = [apiResponse EXCEPT ![r].settled = "undecodable"]
    /\ stderr' = stderr \cup {[line |-> "Gemini API error:", req |-> r]}
    /\ Send(r, Catch("decode"))
    /\ UNCHANGED <<env, startEnv, GOOGLE_API_KEY, PORT, uuidCalls, connOpen,
                   header, reqId, resHeader, query, fetchCalls, envAtCall,
                   data, finished, stdout>>

\* lines 33-45: the response has been handed to the operating system, the
\* 'finish' event fires and the listener registered with once() runs.
Finish(r) ==
    /\ pc[r] = "done"
    /\ connOpen[r]
    /\ ~finished[r]
    /\ finished' = [finished EXCEPT ![r] = TRUE]
    /\ stdout' = Append(stdout, EndLine(r, reqId[r], statusCode[r]))
    /\ UNCHANGED <<env, startEnv, GOOGLE_API_KEY, PORT, uuidCalls, pc, connOpen,
                   header, reqId, resHeader, query, fetchCalls, envAtCall,
                   apiResponse, data, statusCode, resBody, stderr>>

\* The client closes its connection before the response has been sent: the
\* response then emits 'close' and never 'finish'.
ClientClose(r) ==
    /\ pc[r] # "new"
    /\ connOpen[r]
    /\ ~finished[r]
    /\ connOpen' = [connOpen EXCEPT ![r] = FALSE]
    /\ UNCHANGED <<env, startEnv, GOOGLE_API_KEY, PORT, uuidCalls, pc, header,
                   reqId, resHeader, query, fetchCalls, envAtCall, apiResponse,
                   data, statusCode, resBody, finished, stdout, stderr>>


-----------------------------------------------------------------------------
(* Specifications *)

\* Concurrent requests: every request of Reqs may be in flight at once.
ConcQueries == {Undefined, Str("hi")}

ConcFetchResults ==
    {[settled |-> "rejected", ok |-> FALSE], [settled |-> "resolved", ok |-> TRUE]}

ConcBodies == {Data("none", Undefined, "text", Str("1. Take with water"))}

ConcEnvs ==
    [GOOGLE_API_KEY : {Undefined, Str("key-1")}, GOOGLE_MODEL : {Undefined},
     PORT : {Undefined}]

Init == InitWith(ConcEnvs)

Next ==
    \/ \E r \in Reqs, h \in Headers : Middleware(r, h)
    \/ \E r \in Reqs, q \in ConcQueries : Handler(r, q)
    \/ \E r \in Reqs, f \in ConcFetchResults : FetchSettle(r, f)
    \/ \E r \in Reqs, d \in ConcBodies : JsonResolve(r, d)
    \/ \E r \in Reqs : JsonReject(r)
    \/ \E r \in Reqs : Finish(r)
    \/ \E r \in Reqs : ClientClose(r)

Spec == Init /\ [][Next]_vars

\* The same, every request arriving without an x-request-id header, under
\* fairness: the event loop runs every continuation that is ready, and the
\* outbound call is taken to settle (the proviso of the response guarantee).
NextFair ==
    \/ \E r \in Reqs : Middleware(r, Undefined)
    \/ \E r \in Reqs, q \in ConcQueries : Handler(r, q)
    \/ \E r \in Reqs, f \in ConcFetchResults : FetchSettle(r, f)
    \/ \E r \in Reqs, d \in ConcBodies : JsonResolve(r, d)
    \/ \E r \in Reqs : JsonReject(r)
    \/ \E r \in Reqs : Finish(r)
    \/ \E r \in Reqs : ClientClose(r)

Fairness ==
    \A r \in Reqs :
        /\ WF_vars(\E q \in ConcQueries : Handler(r, q))
        /\ WF_vars(\E f \in ConcFetchResults : FetchSettle(r, f))
        /\ WF_vars((\E d \in ConcBodies : JsonResolve(r, d)) \/ JsonReject(r))

FairSpec == Init /\ [][NextFair]_vars /\ Fairness

\* One request, every input: the handler as a function of its inputs.
InitOne == InitWith(Envs)

NextOne ==
    \/ \E h \in Headers : Middleware(1, h)
    \/ \E q \in Queries : Handler(1, q)
    \/ \E f \in FetchResults : FetchSettle(1, f)
    \/ \E d \in Bodies : JsonResolve(1, d)
    \/ JsonReject(1)
    \/ Finish(1)
    \/ ClientClose(1)

SpecOne == InitOne /\ [][NextOne]_vars

\* Requests served while the process environment is being changed.
EnvKeys == {Undefined, Str("key-1")}

EnvModels == {Undefined, Str("gemini-pro")}

EnvEnvs == [GOOGLE_API_KEY : EnvKeys, GOOGLE_MODEL : EnvModels, PORT : {Undefined}]



InitEnv == InitWith(EnvEnvs)

NextEnv ==
    \/ \E v \in EnvKeys : EnvChange("GOOGLE_API_KEY", v)
    \/ \E v \in EnvModels : EnvChange("GOOGLE_MODEL", v)
    \/ \E r \in Reqs : Middleware(r, Undefined)
    \/ \E r \in Reqs : Handler(r, Str("hi"))
    \/ \E r \in Reqs, f \in ConcFetchResults : FetchSettle(r, f)
    \/ \E r \in Reqs, d \in ConcBodies : JsonResolve(r, d)
    \/ \E r \in Reqs : JsonReject(r)
    \/ \E r \in Reqs : Finish(r)

SpecEnv == InitEnv /\ [][NextEnv]_vars


-----------------------------------------------------------------------------
(* Vocabulary of the properties *)

\* The handler has run for request r.
Handled(r) == pc[r] \in {"fetching", "parsing", "done"}

\* A response has been written for request r.
Responded(r) == pc[r] = "done"

\* The reply of the response written for request r.
ReplyOf(r) == resBody[r][1]

\* The query is missing, empty or not a string.
BadQuery(q) == q.t # "string" \/ q.v = ""

\* No API key is configured (unset, or set to the empty string).
NoKey == GOOGLE_API_KEY.t = "undefined" \/ GOOGLE_API_KEY = Str("")

\* The upstream call of request r failed in transport or in decoding.
UpstreamFailed(r) == apiResponse[r].settled \in {"rejected", "undecodable"}

\* The upstream body of request r parsed, and the handler answered from it.
Parsed(r) == Responded(r) /\ apiResponse[r].settled = "resolved"

\* C1: a missing, empty or non-string query is answered 400 with
\* "Missing or invalid query.", with or without an API key, and no outbound
\* call is made for it.
C1_InvalidQueryRejected ==
    \A r \in Reqs :
        Handled(r) /\ BadQuery(query[r]) =>
            /\ Responded(r)
            /\ statusCode[r] = 400
            /\ resBody[r] = <<Str("Missing or invalid query.")>>
            /\ fetchCalls[r] = <<>>
            /\ apiResponse[r] = Pending

C1_Witness ==
    \E r \in Reqs :
        /\ Responded(r) /\ query[r] = Num("7") /\ ~NoKey
        /\ statusCode[r] = 400

\* C2: without an API key every valid query is answered 500 with the fixed
\* "not configured" reply, and no outbound call is made.
C2_NotConfigured ==
    \A r \in Reqs :
        Handled(r) /\ ~BadQuery(query[r]) /\ NoKey =>
            /\ Responded(r)
            /\ statusCode[r] = 500
            /\ resBody[r] = <<NOT_CONFIGURED_REPLY>>
            /\ fetchCalls[r] = <<>>
            /\ apiResponse[r] = Pending

C2_Witness ==
    \E r \in Reqs :
        /\ Responded(r) /\ query[r] = Str("What is paracetamol?")
        /\ GOOGLE_API_KEY = Str("") /\ statusCode[r] = 500

\* C3: a transport or decode failure of the outbound call is answered 500
\* with the fixed "not responding" reply; the reply holds nothing of the
\* error, the handler completes with that one response, and the outcome
\* differs from the safety-block outcome in status and in reply.
C3_UpstreamFailure ==
    \A r \in Reqs :
        UpstreamFailed(r) =>
            /\ ~BadQuery(query[r]) /\ ~NoKey
            /\ Responded(r)
            /\ statusCode[r] = 500
            /\ resBody[r] = <<NOT_RESPONDING_REPLY>>
            /\ ReplyOf(r) \notin {Str("transport"), Str("decode")}
            /\ statusCode[r] # 200 /\ ReplyOf(r) # SAFETY_REPLY

C3_Witness ==
    \E r \in Reqs :
        apiResponse[r].settled = "undecodable" /\ Responded(r) /\ statusCode[r] = 500

\* C4: a body with a block reason is answered 200 with the safety refusal,
\* also when it holds candidate text.
C4_BlockWins ==
    \A r \in Reqs :
        Parsed(r) /\ HasBlockReason(data[r]) =>
            statusCode[r] = 200 /\ resBody[r] = <<SAFETY_REPLY>>

C4_Witness ==
    \E r \in Reqs :
        /\ Parsed(r) /\ HasBlockReason(data[r])
        /\ HasText(data[r]) /\ data[r].text = Str("1. Take with water")
        /\ resBody[r] = <<SAFETY_REPLY>>

\* C5 as stated: without a block reason the reply is the text field
\* verbatim whenever the field is present, the empty string included, and
\* the fallback exactly when it is absent.
C5_AsStated ==
    \A r \in Reqs :
        Parsed(r) /\ ~HasBlockReason(data[r]) =>
            /\ statusCode[r] = 200
            /\ HasText(data[r]) => resBody[r] = <<data[r].text>>
            /\ ~HasText(data[r]) => resBody[r] = <<FALLBACK_REPLY>>

\* C5 amended: without a block reason the response is 200; the reply is the
\* text field verbatim when it is present and not empty, and the fallback
\* when it is absent or the empty string.
C5_TextOrFallback ==
    \A r \in Reqs :
        Parsed(r) /\ ~HasBlockReason(data[r]) =>
            /\ statusCode[r] = 200
            /\ HasText(data[r]) /\ data[r].text # Str("") =>
                   resBody[r] = <<data[r].text>>
            /\ ~HasText(data[r]) \/ data[r].text = Str("") =>
                   resBody[r] = <<FALLBACK_REPLY>>

C5_Witness ==
    \E r \in Reqs :
        /\ Parsed(r) /\ ~HasBlockReason(data[r])
        /\ HasText(data[r]) /\ data[r].text = Str("")
        /\ resBody[r] = <<FALLBACK_REPLY>>

\* The reply the three-way precedence gives for a parsed body.
ExpectedReply(d) ==
    IF HasBlockReason(d) THEN SAFETY_REPLY
    ELSE IF HasText(d) /\ d.text # Str("") THEN d.text
    ELSE FALLBACK_REPLY

\* C9: when the upstream body parses, the response is 200 and its reply is
\* a function of the body alone, whatever the upstream HTTP status; a
\* non-2xx status only adds a console.error line; 500 after a call comes
\* only from a transport or decode failure.
C9_HttpStatusIgnored ==
    \A r \in Reqs :
        /\ Parsed(r) =>
              /\ statusCode[r] = 200
              /\ resBody[r] = <<ExpectedReply(data[r])>>
              /\ ~apiResponse[r].ok <=>
                    [line |-> "Gemini API HTTP error:", req |-> r] \in stderr
        /\ Responded(r) /\ fetchCalls[r] # <<>> /\ statusCode[r] = 500 =>
              UpstreamFailed(r)

C9_Witness ==
    \E r \in Reqs :
        /\ Parsed(r) /\ ~apiResponse[r].ok
        /\ statusCode[r] = 200 /\ resBody[r] = <<Str("1. Take with water")>>


\* The middleware has run for request r.
Arrived(r) == pc[r] # "new"

\* The client of request r sent no x-request-id header.
NoHeader(r) == header[r].t = "undefined"

\* The value is one randomUUID() generated.
Generated(id) == id.t = "string" /\ id.v = "uuid" /\ id.n > 0

\* C6 as stated: every response carries X-Request-Id; a supplied value, the
\* empty one included, is echoed unchanged; without the header the value is
\* generated, non-empty, and differs between any two such requests.
C6_AsStated ==
    \A r \in Reqs :
        Arrived(r) =>
            /\ resHeader[r].t = "string"
            /\ ~NoHeader(r) => resHeader[r] = header[r]
            /\ NoHeader(r) =>
                  /\ Generated(resHeader[r])
                  /\ \A p \in Reqs \ {r} :
                        Arrived(p) /\ NoHeader(p) => resHeader[p] # resHeader[r]

\* C6 amended: every response carries a non-empty X-Request-Id; a supplied
\* non-empty value is echoed unchanged; with the header absent or empty the
\* value is generated, and differs between any two such requests.
C6_RequestIdHeader ==
    \A r \in Reqs :
        Arrived(r) =>
            /\ resHeader[r].t = "string" /\ resHeader[r] # Str("")
            /\ resHeader[r] = reqId[r]
            /\ ~NoHeader(r) /\ header[r] # Str("") => resHeader[r] = header[r]
            /\ NoHeader(r) \/ header[r] = Str("") =>
                  /\ Generated(resHeader[r])
                  /\ \A p \in Reqs \ {r} :
                        Arrived(p) /\ (NoHeader(p) \/ header[p] = Str(""))
                            => resHeader[p] # resHeader[r]

C6_Witness ==
    \E r, p \in Reqs :
        /\ r # p /\ Responded(r) /\ Responded(p)
        /\ NoHeader(r) /\ header[p] = Str("")
        /\ Generated(resHeader[r]) /\ Generated(resHeader[p])
        /\ statusCode[r] = 400 /\ statusCode[p] = 200

\* The positions of the console.log lines of request r for event ev.
Lines(r, ev) ==
    {i \in 1..Len(stdout) : stdout[i].req = r /\ stdout[i].event = ev}

\* Nothing more can happen to request r.
Settled(r) == Responded(r) /\ (finished[r] \/ ~connOpen[r])

\* What holds of the log lines of every request, with or without a close.
LogShape(r) ==
    /\ Cardinality(Lines(r, "request_start")) = (IF Arrived(r) THEN 1 ELSE 0)
    /\ Cardinality(Lines(r, "request_end")) <= 1
    /\ \A i \in Lines(r, "request_start"), j \in Lines(r, "request_end") : i < j
    /\ \A i \in 1..Len(stdout) : stdout[i].req = r => stdout[i].id = reqId[r]

\* C7 as stated: every request, on every handler path and also when the
\* client closes the connection before the response is finished, has
\* exactly one request_start and exactly one request_end line, in that
\* order, both with its own id.
C7_AsStated ==
    \A r \in Reqs :
        /\ LogShape(r)
        /\ Settled(r) => Cardinality(Lines(r, "request_end")) = 1

\* C7 amended: every request has exactly one request_start line; it has
\* one request_end line, after the request_start, with the same id and the
\* status of the response, once the response has finished on an open
\* connection, and none if the client closed the connection before that.
C7_LogLines ==
    \A r \in Reqs :
        /\ LogShape(r)
        /\ Cardinality(Lines(r, "request_end")) = (IF finished[r] THEN 1 ELSE 0)
        /\ finished[r] => Responded(r) /\ connOpen[r]
        /\ ~connOpen[r] => Cardinality(Lines(r, "request_end")) = 0
        /\ \A j \in Lines(r, "request_end") : stdout[j].status = statusCode[r]

C7_Witness ==
    \E r, p \in Reqs :
        /\ r # p /\ Settled(r) /\ Settled(p)
        /\ ~connOpen[r] /\ Lines(r, "request_end") = {}
        /\ finished[p] /\ Lines(p, "request_end") # {}
        /\ reqId[r] = reqId[p]

Outcome(r) ==
    IF BadQuery(query[r]) THEN "invalid input"
    ELSE IF NoKey THEN "not configured"
    ELSE IF UpstreamFailed(r) THEN "upstream failure"
    ELSE "success"

\* At most one outbound call and one response per request; a response is
\* the one its outcome prescribes, and a call is made for the last two
\* outcomes only.
C10_Safety ==
    \A r \in Reqs :
        /\ Len(fetchCalls[r]) <= 1
        /\ Len(resBody[r]) = (IF Responded(r) THEN 1 ELSE 0)
        /\ Responded(r) =>
              /\ Len(fetchCalls[r]) =
                    (IF Outcome(r) \in {"invalid input", "not configured"}
                     THEN 0 ELSE 1)
              /\ CASE Outcome(r) = "invalid input" ->
                        statusCode[r] = 400 /\ ReplyOf(r) = MISSING_QUERY_REPLY
                   [] Outcome(r) = "not configured" ->
                        statusCode[r] = 500 /\ ReplyOf(r) = NOT_CONFIGURED_REPLY
                   [] Outcome(r) = "upstream failure" ->
                        statusCode[r] = 500 /\ ReplyOf(r) = NOT_RESPONDING_REPLY
                   [] OTHER ->
                        statusCode[r] = 200 /\ ReplyOf(r) = ExpectedReply(data[r])

\* C10: every request ends in exactly one of the four outcomes, taken in
\* order, with one response and at most one outbound call, whatever the
\* other requests in flight do; once routed to the handler, and with its
\* outbound call settling, the request gets its response.
C10_OneOutcome ==
    /\ []C10_Safety
    /\ \A r \in Reqs : (pc[r] = "routed") ~> Responded(r)

C10_Witness ==
    \E r, p \in Reqs :
        /\ r < p /\ Responded(r) /\ Responded(p)
        /\ Outcome(r) = "success" /\ Outcome(p) = "upstream failure"
        /\ \E i \in Lines(r, "request_end"), j \in Lines(p, "request_end") : j < i

=============================================================================
